---- MODULE Spec2Model ----
(***************************************************************************)
(* A model of the loded desktop-streaming daemon:                          *)
(*   - the request correlator (call_and_receive_response!),                *)
(*   - CaptureManager::begin_capture and the per-desktop supervising tasks *)
(*     created by stream_desktop_gstreamer,                                *)
(*   - the client wire protocol (protocol.rs).                             *)
(* Option<T> is modelled as a sequence: <<>> is None, <<x>> is Some(x).    *)
(***************************************************************************)
EXTENDS Integers, Sequences, FiniteSets, TLC

VARIABLES
    store,        \* the file ./token: None (absent) or Some(contents)
    token,        \* CaptureManager.token
    session,      \* CaptureManager.session
    succeeded,    \* this manager returned Ok from a begin_capture (history)
    mgrRuns,      \* begin_capture calls made on this manager: 0, 1, 2 for two
                  \*   or more (history)
    result,       \* what the last begin_capture returned to its caller
    lastCorr,     \* the last correlation of the call: what it saw and what it
                  \*   evaluated to (history)
    pc,           \* position of begin_capture: idle, subscribe, call, join,
                  \*   persist, register, panicked
    step,         \* the broker step in progress: create, select, start
    opts,         \* the options of the request in progress (handle_token,
                  \*   restore_token)
    sigRes,       \* the signal future of try_join!: pending, ok, err
    callRes,      \* the call future of try_join!: pending, ok, err
    sigMsg,       \* the signal the stream delivered
    sessionPath,  \* the local `session` of begin_capture
    startRes,     \* the local `start_res` of begin_capture
    writeOk,      \* whether try_write_token returned Ok in this call
    desktops,     \* the local `desktops` (filtered list)
    regIdx,       \* the position of the flat_map over `desktops`
    ported,       \* the local `desktops_with_ports` built so far
    brokerCalls,  \* broker calls issued by the current begin_capture (history)
    storeAtStart, \* the store when the current begin_capture started (history)
    tokenRead,    \* what try_get_token returned in the current call (history)
    tasks,        \* the supervising tasks spawned so far
    shutdownSent, \* the shutdown broadcast was sent
    senderAlive,  \* a Sender of the shutdown channel still exists
    wpc,          \* wire protocol: position of the codec run: idle, encoded,
                  \*   decoded (a packet this side encoded), parsed (a frame
                  \*   that arrived)
    wpkt,         \* wire protocol: the logical packet; for a frame that
                  \*   arrived, the variant it is parsed as
    wheap,        \* wire protocol: contents of freshly allocated memory
    wbytes,       \* wire protocol: the encoded payload
    wframe,       \* wire protocol: the LodestarPacket handed to parse_packet
    wdec,         \* wire protocol: the decoded value
    hsite,        \* handle tokens: the next UniqueToken::new() of begin_capture
    hdrawn,       \* handle tokens: the tokens generated so far, with their use
    cin,          \* correlator: the signal and the reply of one request
    crun,         \* correlator: the run of the macro on them in each order of
                  \*   arrival
    iq,           \* input: the events queued in the mpsc channel
    isent,        \* input: every event sent on the channel, in order (history)
    iout,         \* input: the emits made on the devices, in order (history)
    ipc,          \* input: position of listen(): check, recv, stopped
    ids,          \* input: shutdown values waiting in listen's Receiver
    itx,          \* input: a Sender of the event channel still exists
    sub           \* subscription: one run of the macro against a broker that
                  \*   emits the Response signal when it pleases

mgrVars == <<store, token, session, succeeded, mgrRuns>>
callVars == <<pc, step, opts, sigRes, callRes, sigMsg, sessionPath, startRes,
              writeOk, desktops, regIdx, ported, brokerCalls, storeAtStart,
              tokenRead>>
chanVars == <<tasks, shutdownSent, senderAlive>>

captureVars == <<mgrVars, result, lastCorr, callVars, chanVars>>

wireVars == <<wpc, wpkt, wheap, wbytes, wframe, wdec>>

handleVars == <<hsite, hdrawn>>

corrVars == <<cin, crun>>

inputVars == <<iq, isent, iout, ipc, ids, itx>>

subVars == <<sub>>

vars == <<captureVars, wireVars, handleVars, corrVars, inputVars, subVars>>

----------------------------------------------------------------------------
(* Bounds of the model *)

MaxStreams == 2
MaxTasks == 1

----------------------------------------------------------------------------
(* Option, Result *)

None == <<>>
Some(x) == <<x>>
IsSome(o) == Len(o) = 1
Unwrap(o) == o[1]

NoPayload == [session_handle |-> None, streams |-> <<>>, restore_token |-> None]

Ok(v) == [st |-> "ok", err |-> "", val |-> v, path |-> <<>>]
Err(e) == [st |-> "err", err |-> e, val |-> NoPayload, path |-> <<>>]
Pending == [st |-> "pending", err |-> "", val |-> NoPayload, path |-> <<>>]

----------------------------------------------------------------------------
(* Values the environment supplies *)

Tokens == {"tokA", "tokB"}
\* UniqueToken::new() draws from Handles; ForeignHandles name requests of others
Handles == {"rdesktopd_a"}
ForeignHandles == {"rdesktopd_x"}
Ports == {5001, 5002}
SessionHandles == {"/org/freedesktop/portal/desktop/session/1_42/s", "not a path"}

StreamKinds ==
    { [path |-> 42, size |-> Some(<<1920, 1080>>), id |-> Some("m0")],
      [path |-> 43, size |-> None,                 id |-> Some("m1")],
      [path |-> 44, size |-> Some(<<1280, 720>>),  id |-> None] }

SeqsUpTo(S, n) == UNION { [1..k -> S] : k \in 0..n }

----------------------------------------------------------------------------
(* session_request.rs: request paths and the request correlator *)

ConnName == "1_42"

\* get_path_by_unique_id: "/org/freedesktop/portal/desktop/{ty}/{conn}/{handle}"
get_path_by_unique_id(ty, h) ==
    <<"/org/freedesktop/portal/desktop", ty, ConnName, h>>

\* RequestProxy::from_unique: the proxy's path
RequestPath(h) == get_path_by_unique_id("request", h)

\* ResponseCode: Success = 0, Cancelled = 1, UnknownEnded = 2
ResponseCodes == {0, 1, 2}

StreamEnd == [kind |-> "end", code |-> 0, wellFormed |-> FALSE, payload |-> NoPayload]
Msg(c, wf, p) == [kind |-> "msg", code |-> c, wellFormed |-> wf, payload |-> p]
NoSignal == [kind |-> "none", code |-> 0, wellFormed |-> FALSE, payload |-> NoPayload]

Min(a, b) == IF a < b THEN a ELSE b

\* The number of records of a raw source list that carry a size and an id
Viable(l) == Cardinality({ k \in 1..Len(l) : IsSome(l[k].size) /\ IsSome(l[k].id) })

\* The typed bodies a Response signal can carry at each step
Payloads(s) ==
    CASE s = "create" ->
           { [NoPayload EXCEPT !.session_handle = sh] :
               sh \in {None} \cup { Some(x) : x \in SessionHandles } }
      [] s = "select" -> { NoPayload }
      [] OTHER ->
           { [NoPayload EXCEPT !.streams = ss, !.restore_token = rt] :
               ss \in { l \in SeqsUpTo(StreamKinds, MaxStreams) :
                          Len(tasks) + Viable(l) <= MaxTasks },
               rt \in {None} \cup { Some(t) : t \in Tokens } }

\* What the signal stream can deliver for the request in progress
Signals(s) ==
    {StreamEnd}
      \cup { Msg(c, FALSE, NoPayload) : c \in ResponseCodes }
      \cup { Msg(0, TRUE, p) : p \in Payloads(s) }
      \cup { Msg(c, TRUE, NoPayload) : c \in ResponseCodes \ {0} }

\* The direct replies of the broker call: an error, or the path of a Request
CallReplies ==
    { [ok |-> FALSE, path |-> <<>>] }
      \cup { [ok |-> TRUE, path |-> RequestPath(h)] : h \in Handles \cup ForeignHandles }

\* SignalFuture without the test of res_code
SignalFutureAnyCode(sig) ==
    IF sig.kind = "end" THEN Err("ZBus(InvalidReply)")
    ELSE IF ~sig.wellFormed THEN Err("ZBus(Body)")
    ELSE Ok(sig.payload)

\* The first future of try_join!: stream.next(), body::<(u32, $ty)>(), res_code
SignalFuture(sig) ==
    IF sig.kind = "end" THEN Err("ZBus(InvalidReply)")
    ELSE IF ~sig.wellFormed THEN Err("ZBus(Body)")
    ELSE IF sig.code = 0 THEN Ok(sig.payload)
    ELSE Err("Failed(Interaction Cancelled)")

\* The second future of try_join!: $future.await.map_err(ZBus)
CallFuture(reply) ==
    IF reply.ok THEN [Ok(NoPayload) EXCEPT !.path = reply.path]
    ELSE Err("ZBus(Call)")

\* The error the path comparison of call_and_receive_response! returns
\* (session_request.rs line 96); the design calls it SpoofedReply
SpoofedReply == "ZBus(InvalidReply)"

\* PathCheck without the comparison
PathCheckSkipped(reqPath, rpPath, res) == Ok(res)

\* After the join: $req.path() == rp.path()
PathCheck(reqPath, rpPath, res) ==
    IF reqPath = rpPath THEN Ok(res) ELSE Err("ZBus(InvalidReply)")

----------------------------------------------------------------------------
(* capture.rs: CaptureManager *)

NoResult == [tag |-> "none", err |-> "", desktops |-> <<>>]
OkResult(ds) == [tag |-> "ok", err |-> "", desktops |-> ds]
ErrResult(e) == [tag |-> "err", err |-> e, desktops |-> <<>>]
PanicResult(m) == [tag |-> "panic", err |-> m, desktops |-> <<>>]

NoOpts == [handle_token |-> "", restore_token |-> None]

\* try_get_token: read_to_string("./token"); None stands for Err
try_get_token(readOk) == IF readOk /\ IsSome(store) THEN store ELSE None

\* ObjectPath::try_from
IsObjectPath(s) == s = "/org/freedesktop/portal/desktop/session/1_42/s"

\* The closure of the filter_map over start_res.streams.iter().enumerate()
DesktopOf(idx, i) ==
    IF ~IsSome(i.size) THEN None
    ELSE IF ~IsSome(i.id) THEN None
    ELSE Some([id |-> Unwrap(i.id), loded_id |-> idx, pipewire_path |-> i.path,
               width |-> Unwrap(i.size)[1], height |-> Unwrap(i.size)[2],
               port |-> None])

RECURSIVE FilterFrom(_, _)
FilterFrom(streams, k) ==
    IF k > Len(streams) THEN <<>>
    ELSE DesktopOf(k - 1, streams[k]) \o FilterFrom(streams, k + 1)

FilterDesktops(streams) == FilterFrom(streams, 1)

\* ds_tx.subscribe(): a receiver that sees the values sent from now on
SubscribeRx == [inbox |-> 0]

\* TcpListener::bind("127.0.0.1:0") and local_addr()?.port(), lines 228-229
BindListener(port) == [port |-> port, open |-> TRUE]

\* drop(socket), line 230
DropListener(l) == [l EXCEPT !.open = FALSE]

\* NewTask with the listener moved into the task and still open
NewTaskHoldingListener(path, width, height, port, rx) ==
    [path |-> path, width |-> width, height |-> height, port |-> port,
     rx |-> rx, pc |-> "created", regBefore |-> ~shutdownSent,
     listener |-> BindListener(port)]

\* The task stream_desktop_gstreamer hands to tokio::spawn, after the listener
\* that gave the port was dropped
NewTask(path, width, height, port, rx) ==
    [path |-> path, width |-> width, height |-> height, port |-> port,
     rx |-> rx, pc |-> "created", regBefore |-> ~shutdownSent,
     listener |-> DropListener(BindListener(port))]


----------------------------------------------------------------------------
(* begin_capture, one action per stretch between two await points *)

\* The locals of begin_capture before its first statement, and after it ended
ClearLocals ==
    /\ step' = "none"
    /\ opts' = NoOpts
    /\ sigRes' = Pending
    /\ callRes' = Pending
    /\ sigMsg' = NoSignal
    /\ sessionPath' = None
    /\ startRes' = NoPayload
    /\ writeOk' = FALSE
    /\ desktops' = <<>>
    /\ regIdx' = 0
    /\ ported' = <<>>
    /\ brokerCalls' = <<>>
    /\ storeAtStart' = None
    /\ tokenRead' = None

\* begin_capture returns r to its caller
Return(r) ==
    /\ result' = r
    /\ pc' = "idle"
    /\ ClearLocals

\* What a correlation saw (the signal, the reply, the two paths) and what it
\* evaluated to
NoCorr ==
    [step |-> "none", out |-> "none", err |-> "", sigKind |-> "none", code |-> 0,
     wellFormed |-> FALSE, sigPayload |-> NoPayload, callSt |-> "pending",
     rpPath |-> <<>>, reqPath |-> <<>>, val |-> NoPayload]

Corr(sig, call, r) ==
    [step |-> step, out |-> r.st, err |-> r.err, sigKind |-> sig.kind,
     code |-> sig.code, wellFormed |-> sig.wellFormed, sigPayload |-> sig.payload,
     callSt |-> call.st, rpPath |-> call.path,
     reqPath |-> RequestPath(opts.handle_token), val |-> r.val]

\* A `?` that returns an error to the caller before any correlation
Fail(e) ==
    /\ Return(ErrResult(e))
    /\ lastCorr' = NoCorr

\* CorrFail with the `?` left out: the error is dropped and begin_capture
\* goes on to its next request
CorrFailIgnored(sig, call, e) ==
    /\ lastCorr' = Corr(sig, call, Err(e))
    /\ pc' = "subscribe"
    /\ step' = IF step = "create" THEN "select" ELSE "start"
    /\ UNCHANGED <<result, opts, sigRes, callRes, sigMsg, sessionPath, startRes,
                   writeOk, desktops, regIdx, ported, brokerCalls, storeAtStart,
                   tokenRead>>

\* The `?` on the value of call_and_receive_response!
CorrFail(sig, call, e) ==
    /\ Return(ErrResult(e))
    /\ lastCorr' = Corr(sig, call, Err(e))

\* A panic of begin_capture (an expect on None or Err)
Panic(m) ==
    /\ result' = PanicResult(m)
    /\ pc' = "panicked"
    /\ ClearLocals

\* lines 78-103: the session guard, the token load, the proxy, the first request
BeginCapture ==
    /\ pc = "idle"
    /\ senderAlive
    /\ mgrRuns' = Min(mgrRuns + 1, 2)
    /\ IF IsSome(session)
       THEN /\ Fail("AlreadyStarted")
            /\ UNCHANGED token
       ELSE \E readOk \in BOOLEAN, proxyOk \in BOOLEAN, h \in Handles :
              LET rd == try_get_token(readOk) IN
              /\ token' = IF IsSome(rd) THEN rd ELSE token
              /\ IF proxyOk
                 THEN /\ result' = NoResult
                      /\ lastCorr' = NoCorr
                      /\ pc' = "subscribe"
                      /\ step' = "create"
                      /\ opts' = [handle_token |-> h, restore_token |-> None]
                      /\ storeAtStart' = store
                      /\ tokenRead' = rd
                      /\ UNCHANGED <<sigRes, callRes, sigMsg, sessionPath, startRes,
                                     writeOk, desktops, regIdx, ported, brokerCalls>>
                 ELSE Fail("ZBus(Proxy)")
    /\ UNCHANGED <<store, session, succeeded, chanVars, wireVars, handleVars, corrVars, inputVars, subVars>>

\* line 70: $req.receive_response().await?
Subscribe ==
    /\ pc = "subscribe"
    /\ \E ok \in BOOLEAN :
         IF ok THEN /\ pc' = "call"
                    /\ sigRes' = Pending
                    /\ callRes' = Pending
                    /\ sigMsg' = NoSignal
                    /\ UNCHANGED <<result, lastCorr, step, opts, sessionPath,
                                   startRes, writeOk, desktops, regIdx, ported,
                                   brokerCalls, storeAtStart, tokenRead>>
         ELSE CorrFail(NoSignal, Pending, "ZBus(Subscribe)")
    /\ UNCHANGED <<mgrVars, chanVars, wireVars, handleVars, corrVars, inputVars, subVars>>

\* lines 71-91: the first poll of try_join! sends the broker call
IssueCall ==
    /\ pc = "call"
    /\ brokerCalls' = Append(brokerCalls,
                             [method |-> step,
                              restore_token |-> opts.restore_token,
                              session |-> sessionPath])
    /\ pc' = "join"
    /\ UNCHANGED <<mgrVars, result, lastCorr, step, opts, sigRes, callRes, sigMsg,
                   sessionPath, startRes, writeOk, desktops, regIdx, ported,
                   storeAtStart, tokenRead, chanVars, wireVars, handleVars, corrVars, inputVars, subVars>>

\* lines 72-89: the Response signal arrives and the signal future resolves;
\* try_join! returns at once when it resolves to an error
SignalArrives ==
    /\ pc = "join"
    /\ sigRes.st = "pending"
    /\ \E sig \in Signals(step) :
         IF SignalFuture(sig).st = "err"
         THEN CorrFail(sig, callRes, SignalFuture(sig).err)
         ELSE /\ sigMsg' = sig
              /\ sigRes' = SignalFuture(sig)
              /\ UNCHANGED <<result, lastCorr, pc, step, opts, callRes, sessionPath, startRes,
                             writeOk, desktops, regIdx, ported, brokerCalls,
                             storeAtStart, tokenRead>>
    /\ UNCHANGED <<mgrVars, chanVars, wireVars, handleVars, corrVars, inputVars, subVars>>

\* line 90: the direct reply of the call arrives and the call future resolves
CallReply ==
    /\ pc = "join"
    /\ callRes.st = "pending"
    /\ \E reply \in CallReplies :
         IF CallFuture(reply).st = "err"
         THEN CorrFail(sigMsg, CallFuture(reply), CallFuture(reply).err)
         ELSE /\ callRes' = CallFuture(reply)
              /\ UNCHANGED <<result, lastCorr, pc, step, opts, sigRes, sigMsg, sessionPath,
                             startRes, writeOk, desktops, regIdx, ported,
                             brokerCalls, storeAtStart, tokenRead>>
    /\ UNCHANGED <<mgrVars, chanVars, wireVars, handleVars, corrVars, inputVars, subVars>>

\* Joined that does not wait for the signal future
JoinedOnReply == pc = "join" /\ callRes.st = "ok"

\* lines 93-97: both futures are Ok, the paths are compared
Joined == pc = "join" /\ sigRes.st = "ok" /\ callRes.st = "ok"

\* The value of the macro once both futures are Ok
JoinResult == PathCheck(RequestPath(opts.handle_token), callRes.path, sigRes.val)

\* lines 105-138: create_session returned; the session handle; select options
AfterCreateSession ==
    /\ Joined
    /\ step = "create"
    /\ IF JoinResult.st = "err"
       THEN CorrFail(sigMsg, callRes, JoinResult.err)
       ELSE LET csr == JoinResult.val IN
            /\ lastCorr' = Corr(sigMsg, callRes, JoinResult)
            /\ IF ~IsSome(csr.session_handle)
               THEN Panic("SessionHandle missing from successful CreateSessionResponse")
               ELSE IF ~IsObjectPath(Unwrap(csr.session_handle))
               THEN Panic("Invalid SessionHandle in successful CreateSessionResponse")
               ELSE \E h \in Handles :
                   /\ sessionPath' = csr.session_handle
                   /\ opts' = [handle_token |-> h, restore_token |-> token]
                   /\ step' = "select"
                   /\ pc' = "subscribe"
                   /\ UNCHANGED <<result, sigRes, callRes, sigMsg, startRes, writeOk,
                                  desktops, regIdx, ported, brokerCalls,
                                  storeAtStart, tokenRead>>
    /\ UNCHANGED <<mgrVars, chanVars, wireVars, handleVars, corrVars, inputVars, subVars>>

\* lines 140-145: select_sources returned; the start request
AfterSelectSources ==
    /\ Joined
    /\ step = "select"
    /\ IF JoinResult.st = "err"
       THEN CorrFail(sigMsg, callRes, JoinResult.err)
       ELSE \E h \in Handles :
              /\ lastCorr' = Corr(sigMsg, callRes, JoinResult)
              /\ opts' = [handle_token |-> h, restore_token |-> None]
              /\ step' = "start"
              /\ pc' = "subscribe"
              /\ UNCHANGED <<result, sigRes, callRes, sigMsg, sessionPath, startRes,
                             writeOk, desktops, regIdx, ported, brokerCalls,
                             storeAtStart, tokenRead>>
    /\ UNCHANGED <<mgrVars, chanVars, wireVars, handleVars, corrVars, inputVars, subVars>>

\* AfterStart without the `?` on the start correlation: begin_capture goes on
\* to the token write after a failed start-cast
AfterStartPersistsOnError ==
    /\ Joined
    /\ step = "start"
    /\ lastCorr' = Corr(sigMsg, callRes, JoinResult)
    /\ IF ~IsSome(JoinResult.val.restore_token)
       THEN /\ startRes' = JoinResult.val
            /\ UNCHANGED token
       ELSE /\ startRes' = [JoinResult.val EXCEPT !.restore_token = None]
            /\ token' = JoinResult.val.restore_token
    /\ pc' = "persist"
    /\ UNCHANGED <<result, step, opts, sigRes, callRes, sigMsg, sessionPath,
                   writeOk, desktops, regIdx, ported, brokerCalls,
                   storeAtStart, tokenRead>>
    /\ UNCHANGED <<store, session, succeeded, mgrRuns, chanVars, wireVars, handleVars, corrVars, inputVars, subVars>>

\* lines 147-158: start returned; self.token = Some(restore_token.expect(..))
AfterStart ==
    /\ Joined
    /\ step = "start"
    /\ IF JoinResult.st = "err"
       THEN /\ CorrFail(sigMsg, callRes, JoinResult.err)
            /\ UNCHANGED token
       ELSE IF ~IsSome(JoinResult.val.restore_token)
       THEN /\ Panic("No refresh token was present")
            /\ lastCorr' = Corr(sigMsg, callRes, JoinResult)
            /\ UNCHANGED token
       ELSE /\ startRes' = [JoinResult.val EXCEPT !.restore_token = None]
            /\ token' = JoinResult.val.restore_token
            /\ lastCorr' = Corr(sigMsg, callRes, JoinResult)
            /\ pc' = "persist"
            /\ UNCHANGED <<result, step, opts, sigRes, callRes, sigMsg, sessionPath,
                           writeOk, desktops, regIdx, ported, brokerCalls,
                           storeAtStart, tokenRead>>
    /\ UNCHANGED <<store, session, succeeded, mgrRuns, chanVars, wireVars, handleVars, corrVars, inputVars, subVars>>

\* try_write_token: File::create truncates ./token, write_all fills it
WriteOutcomes == {"ok", "create_failed", "write_failed"}

\* try_write_token that reports Ok and leaves the file as it was
try_write_token_unwritten(o) == [ok |-> IsSome(token), file |-> store]

try_write_token(o) ==
    IF IsSome(token)
    THEN CASE o = "ok" -> [ok |-> TRUE, file |-> token]
           [] o = "create_failed" -> [ok |-> FALSE, file |-> store]
           [] OTHER -> [ok |-> FALSE, file |-> Some("")]
    ELSE [ok |-> FALSE, file |-> store]

\* PersistToken with `?` on try_write_token in place of the match: a failed
\* write ends begin_capture with the error
PersistTokenPropagates ==
    /\ pc = "persist"
    /\ \E o \in WriteOutcomes :
         /\ store' = try_write_token(o).file
         /\ IF try_write_token(o).ok
            THEN /\ writeOk' = TRUE
                 /\ desktops' = FilterDesktops(startRes.streams)
                 /\ regIdx' = 1
                 /\ ported' = <<>>
                 /\ pc' = "register"
                 /\ UNCHANGED <<result, step, opts, sigRes, callRes, sigMsg,
                                sessionPath, startRes, brokerCalls, storeAtStart,
                                tokenRead>>
            ELSE /\ result' = ErrResult("FailedTokenOperation")
                 /\ pc' = "idle"
                 /\ ClearLocals
    /\ UNCHANGED <<token, session, succeeded, mgrRuns, lastCorr, chanVars, wireVars,
                   handleVars, corrVars, inputVars, subVars>>

\* lines 160-191: the token is written, the streams are filtered
PersistToken ==
    /\ pc = "persist"
    /\ \E o \in WriteOutcomes :
         /\ store' = try_write_token(o).file
         /\ writeOk' = try_write_token(o).ok
    /\ desktops' = FilterDesktops(startRes.streams)
    /\ regIdx' = 1
    /\ ported' = <<>>
    /\ pc' = "register"
    /\ UNCHANGED <<token, session, succeeded, mgrRuns, result, lastCorr, step, opts, sigRes,
                   callRes, sigMsg, sessionPath, startRes, brokerCalls,
                   storeAtStart, tokenRead, chanVars, wireVars, handleVars, corrVars, inputVars, subVars>>

\* lines 195-216 and 222-264: one turn of the flat_map: subscribe, bind a port,
\* release it, hand the supervising task to tokio::spawn
RegisterDesktop ==
    /\ pc = "register"
    /\ regIdx <= Len(desktops)
    /\ LET d == desktops[regIdx]
           rx == SubscribeRx
       IN \E bindOk \in BOOLEAN, port \in Ports :
            IF bindOk
            THEN /\ tasks' = Append(tasks,
                                    NewTask(d.pipewire_path, d.width, d.height, port, rx))
                 /\ ported' = Append(ported, [d EXCEPT !.port = Some(port)])
            ELSE UNCHANGED <<tasks, ported>>
    /\ regIdx' = regIdx + 1
    /\ UNCHANGED <<mgrVars, result, lastCorr, pc, step, opts, sigRes, callRes, sigMsg,
                   sessionPath, startRes, writeOk, desktops, brokerCalls,
                   storeAtStart, tokenRead, shutdownSent, senderAlive, wireVars, handleVars, corrVars, inputVars, subVars>>

\* ReturnDesktops that first awaits the JoinHandle of every supervising task
ReturnDesktopsAwaitingTasks ==
    /\ pc = "register"
    /\ regIdx > Len(desktops)
    /\ \A i \in 1..Len(tasks) : tasks[i].pc \notin {"created", "waiting"}
    /\ Return(OkResult(ported))
    /\ succeeded' = TRUE
    /\ UNCHANGED <<store, token, session, mgrRuns, lastCorr, chanVars, wireVars, handleVars, corrVars, inputVars, subVars>>

\* line 219: Ok(desktops_with_ports)
ReturnDesktops ==
    /\ pc = "register"
    /\ regIdx > Len(desktops)
    /\ Return(OkResult(ported))
    /\ succeeded' = TRUE
    /\ UNCHANGED <<store, token, session, mgrRuns, lastCorr, chanVars, wireVars, handleVars, corrVars, inputVars, subVars>>

\* CaptureManager::new, lines 55-61: another manager instance in the process
NewManager ==
    /\ pc = "idle"
    /\ mgrRuns > 0
    /\ token' = None
    /\ session' = None
    /\ succeeded' = FALSE
    /\ mgrRuns' = 0
    /\ result' = NoResult
    /\ lastCorr' = NoCorr
    /\ UNCHANGED <<store, callVars, chanVars, wireVars, handleVars, corrVars, inputVars, subVars>>

----------------------------------------------------------------------------
(* The supervising task of stream_desktop_gstreamer, lines 247-261 *)

TaskIds == 1..Len(tasks)

\* line 248: cmd.spawn().expect(..)
AfterSpawn(ok) == IF ok THEN "waiting" ELSE "panicked"

\* recv() on a receiver subscribed only when the task reaches recv(): what was
\* sent before is not seen
RecvResultSubscribedLate(rx) == IF ~senderAlive THEN "closed" ELSE "pending"

\* ds_rx.recv(): Ok when a value is queued, Err(Closed) when none is and every
\* Sender is gone, pending otherwise
RecvResult(rx) ==
    IF rx.inbox > 0 THEN "ok" ELSE IF ~senderAlive THEN "closed" ELSE "pending"

\* AfterRecv with the test of recv() inverted (is_err for is_ok)
AfterRecvOnErr(r, killOk) ==
    IF r # "ok" THEN (IF killOk THEN "killed" ELSE "kill_failed") ELSE "no_signal"

\* lines 252-260: kill the child when recv() is Ok
AfterRecv(r, killOk) ==
    IF r = "ok" THEN (IF killOk THEN "killed" ELSE "kill_failed") ELSE "no_signal"

TaskSpawnChild(i) ==
    /\ i \in TaskIds
    /\ tasks[i].pc = "created"
    /\ \E ok \in BOOLEAN : tasks' = [tasks EXCEPT ![i].pc = AfterSpawn(ok)]
    /\ UNCHANGED <<mgrVars, result, lastCorr, callVars, shutdownSent, senderAlive, wireVars, handleVars, corrVars, inputVars, subVars>>

TaskRecv(i) ==
    /\ i \in TaskIds
    /\ tasks[i].pc = "waiting"
    /\ RecvResult(tasks[i].rx) # "pending"
    /\ \E killOk \in BOOLEAN :
         tasks' = [tasks EXCEPT ![i].pc = AfterRecv(RecvResult(tasks[i].rx), killOk),
                                ![i].rx = [inbox |-> 0]]
    /\ UNCHANGED <<mgrVars, result, lastCorr, callVars, shutdownSent, senderAlive, wireVars, handleVars, corrVars, inputVars, subVars>>

TaskLive(t) == t.pc \in {"created", "waiting"}

\* The daemon's shutdown: one send on the broadcast channel, seen by every
\* receiver that exists
ShutdownBroadcast ==
    /\ senderAlive
    /\ ~shutdownSent
    /\ shutdownSent' = TRUE
    /\ tasks' = [i \in TaskIds |->
                   IF TaskLive(tasks[i])
                   THEN [tasks[i] EXCEPT !.rx = [inbox |-> tasks[i].rx.inbox + 1]]
                   ELSE tasks[i]]
    /\ UNCHANGED <<mgrVars, result, lastCorr, callVars, senderAlive, wireVars, handleVars, corrVars, inputVars, subVars>>

\* The owner of the channel drops the last Sender
SenderDropped ==
    /\ senderAlive
    /\ pc \in {"idle", "panicked"}
    /\ senderAlive' = FALSE
    /\ UNCHANGED <<mgrVars, result, lastCorr, callVars, tasks, shutdownSent, wireVars, handleVars, corrVars, inputVars, subVars>>

----------------------------------------------------------------------------
(* The capture specification *)

WireIdle ==
    /\ wpc = "idle"
    /\ wpkt = <<>>
    /\ wheap = "zero"
    /\ wbytes = <<>>
    /\ wframe = <<>>
    /\ wdec = <<>>

CaptureInit ==
    /\ store = None
    /\ token = None
    /\ session = None
    /\ succeeded = FALSE
    /\ mgrRuns = 0
    /\ result = NoResult
    /\ lastCorr = NoCorr
    /\ pc = "idle"
    /\ step = "none"
    /\ opts = NoOpts
    /\ sigRes = Pending
    /\ callRes = Pending
    /\ sigMsg = NoSignal
    /\ sessionPath = None
    /\ startRes = NoPayload
    /\ writeOk = FALSE
    /\ desktops = <<>>
    /\ regIdx = 0
    /\ ported = <<>>
    /\ brokerCalls = <<>>
    /\ storeAtStart = None
    /\ tokenRead = None
    /\ tasks = <<>>
    /\ shutdownSent = FALSE
    /\ senderAlive = TRUE

\* No handle token generated yet
HandleIdle ==
    /\ hsite = "idle"
    /\ hdrawn = <<>>

\* No correlation under comparison
NoInput == [sig |-> NoSignal, reply |-> [ok |-> FALSE, path |-> <<>>], handle |-> ""]
NoRun == [sigRes |-> Pending, callRes |-> Pending, out |-> Pending]
Orders == {"signal_first", "reply_first"}

CorrIdle ==
    /\ cin = NoInput
    /\ crun = [o \in Orders |-> NoRun]

\* InputManager::new returned and listen() took its two receivers, lines 278-289
InputIdle ==
    /\ iq = <<>>
    /\ isent = <<>>
    /\ iout = <<>>
    /\ ipc = "check"
    /\ ids = 0
    /\ itx = TRUE

\* The macro before its first statement; the broker has received nothing
SubIdle ==
    sub = [at |-> 1, subscribed |-> FALSE, called |-> FALSE, emitted |-> FALSE,
           buffered |-> <<>>, lost |-> FALSE, got |-> NoSignal, reply |-> Pending]

Init == CaptureInit /\ WireIdle /\ HandleIdle /\ CorrIdle /\ InputIdle /\ SubIdle

Next ==
    \/ BeginCapture
    \/ Subscribe
    \/ IssueCall
    \/ SignalArrives
    \/ CallReply
    \/ AfterCreateSession
    \/ AfterSelectSources
    \/ AfterStart
    \/ PersistToken
    \/ RegisterDesktop
    \/ ReturnDesktops
    \/ NewManager
    \/ \E i \in 1..MaxTasks : TaskSpawnChild(i)
    \/ \E i \in 1..MaxTasks : TaskRecv(i)
    \/ ShutdownBroadcast
    \/ SenderDropped

Spec == Init /\ [][Next]_vars

\* The tokio runtime polls every spawned task that can make progress
FairSpec ==
    /\ Spec
    /\ \A i \in 1..MaxTasks : WF_vars(TaskSpawnChild(i)) /\ WF_vars(TaskRecv(i))

\* begin_capture runs on: the token write completes and the registrations and
\* the return, which have no await point, are executed; nothing is assumed of
\* the supervising tasks, the broker or the shutdown broadcast
FairCapture ==
    /\ Spec
    /\ WF_vars(PersistToken)
    /\ WF_vars(RegisterDesktop)
    /\ WF_vars(ReturnDesktops)

----------------------------------------------------------------------------
(* protocol.rs: the client wire protocol.  Memory is a sequence of bytes;   *)
(* position p of a buffer (from 0) is element p + 1 of the sequence.       *)

MaxEntries == 3

\* to_le_bytes of an integer of n bytes (two's complement), for |v| < 2^31
to_le_bytes(v, n) ==
    [k \in 1..n |-> IF k <= 4 THEN (v \div (256 ^ (k - 1))) % 256
                    ELSE IF v < 0 THEN 255 ELSE 0]

\* What Arc::new_uninit_slice holds before it is written: whatever the
\* allocator left there
HeapFills == {"zero", "ones", "stale"}
HeapByte(fill, p) ==
    CASE fill = "zero" -> 0
      [] fill = "ones" -> 255
      [] OTHER -> (37 * p + 11) % 256

\* LodestarPacketType as u64
TagOf(kind) ==
    CASE kind = "Handshake" -> 0
      [] kind = "DesktopList" -> 1
      [] kind = "SwitchSource" -> 2
      [] OTHER -> 3

\* size_of::<LodestarDesktop>(): u64 + i32 + i32
DesktopSize == 16

\* PACKET_LENGTHS: size_of of the repr(C) structs; Handshake is u64 + bool,
\* padded to 16
PACKET_LENGTHS == <<16, 0, 8, 0>>

\* impl Into<Arc<[u8]>> for LodestarHandshakePacket
EncodeHandshake(p) ==
    to_le_bytes(p.api_revision, 8) \o to_le_bytes(IF p.accepted THEN 1 ELSE 0, 8)

\* The bytes the inner loop of LodestarDesktopPacket::into walks over
RecordBytes(d) ==
    to_le_bytes(d.loded_id, 8) \o to_le_bytes(d.width, 4) \o to_le_bytes(d.height, 4)

\* The inner loop: every byte of the record goes to dataw[at]
RECURSIVE WriteRecord(_, _, _, _)
WriteRecord(dataw, at, bytes, k) ==
    IF k > Len(bytes) THEN dataw
    ELSE WriteRecord([dataw EXCEPT ![at + 1] = bytes[k]], at, bytes, k + 1)

\* The position record idx is written at: dataw[idx + 1]
RecordSlot(idx) == idx + 1

\* The outer loop over the records
RECURSIVE WriteRecords(_, _, _)
WriteRecords(dataw, data, idx) ==
    IF idx >= Len(data) THEN dataw
    ELSE WriteRecords(WriteRecord(dataw, RecordSlot(idx), RecordBytes(data[idx + 1]), 1),
                      data, idx + 1)

\* LodestarDesktopPacket::into
EncodeDesktopList(p, fill) ==
    LET n == p.desktop_count
        len == 8 + DesktopSize * n
        fresh == [k \in 1..len |-> HeapByte(fill, k - 1)]
        counted == [k \in 1..len |-> IF k <= 8 THEN to_le_bytes(n, 8)[k] ELSE fresh[k]]
    IN WriteRecords(counted, p.data, 0)

\* impl Into<Arc<[u8]>> for LodestarSwitchSourcePacket
EncodeSwitchSource(p) == to_le_bytes(p.new_source, 8)

\* impl Into<Arc<[u8]>> for LodestarEndPacket
EncodeEnd(p) == <<>>

Encode(p, fill) ==
    CASE p.kind = "Handshake" -> EncodeHandshake(p)
      [] p.kind = "DesktopList" -> EncodeDesktopList(p, fill)
      [] p.kind = "SwitchSource" -> EncodeSwitchSource(p)
      [] OTHER -> EncodeEnd(p)

\* struct LodestarPacket: the tag, the declared length, the payload
Frame(kind, bytes) ==
    [packet_type |-> TagOf(kind), packet_length |-> Len(bytes), packet_data |-> bytes]

\* The byte at position p from the start of packet_data; past the end of the
\* buffer it is whatever lies in memory there
Mem(f, fill, p) ==
    IF p < Len(f.packet_data) THEN f.packet_data[p + 1] ELSE HeapByte(fill, p)

Bytes(f, fill, from, n) == [k \in 1..n |-> Mem(f, fill, from + k - 1)]

\* A count larger than that of any list of the model
TooMany == MaxEntries + 1

\* A u64 read from memory, as far as the model needs its value
U64Value(b) ==
    IF \A k \in 3..8 : b[k] = 0 THEN b[1] + 256 * b[2] ELSE TooMany

\* LodestarDesktopPacket::get_desktops: desktop_count records from data
get_desktops(f, fill) ==
    LET count == Min(U64Value(Bytes(f, fill, 0, 8)), MaxEntries + 1)
    IN [k \in 1..count |->
          [loded_id |-> Bytes(f, fill, 8 + DesktopSize * (k - 1), 8),
           width |-> Bytes(f, fill, 8 + DesktopSize * (k - 1) + 8, 4),
           height |-> Bytes(f, fill, 8 + DesktopSize * (k - 1) + 12, 4)]]

\* The bytes of packet_data seen as the struct T
ViewAs(T, f, fill) ==
    CASE T = "Handshake" ->
           [kind |-> T, api_revision |-> Bytes(f, fill, 0, 8),
            accepted |-> Mem(f, fill, 8)]
      [] T = "DesktopList" ->
           [kind |-> T, desktop_count |-> Bytes(f, fill, 0, 8),
            data |-> get_desktops(f, fill)]
      [] T = "SwitchSource" ->
           [kind |-> T, new_source |-> Bytes(f, fill, 0, 8)]
      [] OTHER -> [kind |-> T]

\* How many bytes from the start of packet_data the fields of the struct T and
\* the slice of get_desktops cover
ReadExtent(T, f, fill) ==
    CASE T = "Handshake" -> 9
      [] T = "DesktopList" -> 8 + DesktopSize * Len(get_desktops(f, fill))
      [] T = "SwitchSource" -> 8
      [] OTHER -> 0

\* LodestarPacket::parse_packet::<T>
parse_packet(T, f, fill) ==
    LET ex_len == PACKET_LENGTHS[f.packet_type + 1] IN
    IF f.packet_length = ex_len \/ ex_len = 0
    THEN [ok |-> TRUE, err |-> "", val |-> ViewAs(T, f, fill)]
    ELSE [ok |-> FALSE, err |-> "InvalidPacketLength", val |-> [kind |-> "none"]]

\* The logical packets of the model
Revisions == {0, 1, 513}
SourceIds == {0, 7, 300}
DesktopValues ==
    { [loded_id |-> 7, width |-> 1920, height |-> 1080],
      [loded_id |-> 300, width |-> 1280, height |-> -1] }

Packets ==
    { [kind |-> "Handshake", api_revision |-> r, accepted |-> a] :
        r \in Revisions, a \in BOOLEAN }
      \cup { [kind |-> "DesktopList", desktop_count |-> Len(ds), data |-> ds] :
               ds \in SeqsUpTo(DesktopValues, MaxEntries) }
      \cup { [kind |-> "SwitchSource", new_source |-> s] : s \in SourceIds }
      \cup { [kind |-> "End"] }

\* Whether the decoded struct holds the fields of the logical packet p
SameFields(v, p) ==
    /\ v.kind = p.kind
    /\ CASE p.kind = "Handshake" ->
              /\ v.api_revision = to_le_bytes(p.api_revision, 8)
              /\ v.accepted = (IF p.accepted THEN 1 ELSE 0)
         [] p.kind = "DesktopList" ->
              /\ v.desktop_count = to_le_bytes(p.desktop_count, 8)
              /\ Len(v.data) = Len(p.data)
              /\ \A k \in 1..Len(p.data) :
                   /\ v.data[k].loded_id = to_le_bytes(p.data[k].loded_id, 8)
                   /\ v.data[k].width = to_le_bytes(p.data[k].width, 4)
                   /\ v.data[k].height = to_le_bytes(p.data[k].height, 4)
         [] p.kind = "SwitchSource" -> v.new_source = to_le_bytes(p.new_source, 8)
         [] OTHER -> TRUE

\* A sender encodes a packet
WireEncode ==
    /\ wpc = "idle"
    /\ \E p \in Packets, fill \in HeapFills :
         /\ wpkt' = p
         /\ wheap' = fill
         /\ wbytes' = Encode(p, fill)
    /\ wpc' = "encoded"
    /\ UNCHANGED <<wframe, wdec, captureVars, handleVars, corrVars, inputVars, subVars>>

\* The receiver gets the frame and parses it as the variant of its tag
WireDecode ==
    /\ wpc = "encoded"
    /\ wframe' = Frame(wpkt.kind, wbytes)
    /\ wdec' = parse_packet(wpkt.kind, Frame(wpkt.kind, wbytes), wheap)
    /\ wpc' = "decoded"
    /\ UNCHANGED <<wpkt, wheap, wbytes, captureVars, handleVars, corrVars, inputVars, subVars>>

\* The lengths a frame that arrives declares, and the lengths of its data
FrameLengths == {0, 8, 9, 16, 24, 40}

\* The payload of a DesktopList as the receiver expects it: the count, then
\* the records one after the other
RECURSIVE PackedRecords(_)
PackedRecords(data) ==
    IF data = <<>> THEN <<>> ELSE RecordBytes(Head(data)) \o PackedRecords(Tail(data))

\* The data of the frames that arrive: a count field of 0, 1 or 2 followed by
\* up to two records, cut or padded to one of the lengths
ArrivingData ==
    LET rec == [loded_id |-> 7, width |-> 1920, height |-> 1080]
        long(c) == to_le_bytes(c, 8) \o PackedRecords(<<rec, rec>>)
    IN { SubSeq(long(c), 1, n) : c \in 0..2, n \in FrameLengths }

PacketKinds == {"Handshake", "DesktopList", "SwitchSource", "End"}

\* A frame arrives from a client and is parsed as the variant T
WireReceive ==
    /\ wpc = "idle"
    /\ \E T \in PacketKinds, t \in 0..3, n \in FrameLengths, d \in ArrivingData,
          fill \in HeapFills :
         LET f == [packet_type |-> t, packet_length |-> n, packet_data |-> d] IN
         /\ wpkt' = [kind |-> T]
         /\ wheap' = fill
         /\ wframe' = f
         /\ wdec' = parse_packet(T, f, fill)
    /\ wbytes' = <<>>
    /\ wpc' = "parsed"
    /\ UNCHANGED <<captureVars, handleVars, corrVars, inputVars, subVars>>

\* The next packet
WireDone ==
    /\ wpc \in {"decoded", "parsed"}
    /\ wpc' = "idle"
    /\ wpkt' = <<>>
    /\ wheap' = "zero"
    /\ wbytes' = <<>>
    /\ wframe' = <<>>
    /\ wdec' = <<>>
    /\ UNCHANGED <<captureVars, handleVars, corrVars, inputVars, subVars>>

WireNext == WireEncode \/ WireDecode \/ WireReceive \/ WireDone

SpecWire == Init /\ [][WireNext]_vars



----------------------------------------------------------------------------
(* unique_token.rs: the handle tokens of the requests of begin_capture *)

\* The characters the model draws for take(15) of the code
TokenChars == 2

\* rand::distributions::Alphanumeric, two of its 62 characters
Alphanumeric == {"a", "Z"}

\* What thread_rng().sample_iter(Alphanumeric).take(..) can yield
RngSamples == [1..TokenChars -> Alphanumeric]

\* UniqueToken::new: "rdesktopd_" followed by the sampled characters
UniqueTokenNew(sample) == <<"rdesktopd_">> \o sample

Drawn(use, sample) == [use |-> use, token |-> UniqueTokenNew(sample)]

\* capture.rs line 100: CreateSessionOptions::default() generates handle_token
\* and session_handle_token
HandleCreateSession ==
    /\ hsite = "idle"
    /\ \E s1 \in RngSamples, s2 \in RngSamples :
         hdrawn' = <<Drawn("create_request", s1), Drawn("session", s2)>>
    /\ hsite' = "select"
    /\ UNCHANGED <<captureVars, wireVars, corrVars, inputVars, subVars>>

\* capture.rs line 129: src_request_token = UniqueToken::new()
HandleSelectSources ==
    /\ hsite = "select"
    /\ \E s \in RngSamples : hdrawn' = Append(hdrawn, Drawn("select_request", s))
    /\ hsite' = "start"
    /\ UNCHANGED <<captureVars, wireVars, corrVars, inputVars, subVars>>

\* capture.rs line 143: start_req_token = UniqueToken::new()
HandleStart ==
    /\ hsite = "start"
    /\ \E s \in RngSamples : hdrawn' = Append(hdrawn, Drawn("start_request", s))
    /\ hsite' = "returned"
    /\ UNCHANGED <<captureVars, wireVars, corrVars, inputVars, subVars>>

\* begin_capture returned; the next run of the process
HandleDone ==
    /\ hsite = "returned"
    /\ hsite' = "idle"
    /\ hdrawn' = <<>>
    /\ UNCHANGED <<captureVars, wireVars, corrVars, inputVars, subVars>>

HandleNext == HandleCreateSession \/ HandleSelectSources \/ HandleStart \/ HandleDone

SpecHandles == Init /\ [][HandleNext]_vars


----------------------------------------------------------------------------
(* session_request.rs: call_and_receive_response! on one signal and one reply,
   run once with the signal arriving first and once with the reply first *)

\* A future of try_join! resolves to the first result an arrival produces
FirstResolvedWins(run, which, r, reqPath) ==
    [run EXCEPT ![which] = r, !.out = r]

\* A future of try_join! resolves (lines 71-91): an Err is returned at once by
\* the `?`; when both are Ok the paths are compared (lines 93-97)
TryJoinResolve(run, which, r, reqPath) ==
    LET run2 == [run EXCEPT ![which] = r] IN
    IF r.st = "err" THEN [run2 EXCEPT !.out = r]
    ELSE IF run2.sigRes.st = "ok" /\ run2.callRes.st = "ok"
    THEN [run2 EXCEPT !.out = PathCheck(reqPath, run2.callRes.path, run2.sigRes.val)]
    ELSE run2

\* A request is made: the same signal and the same reply are fed to both runs
CorrStart ==
    /\ cin = NoInput
    /\ \E sig \in Signals("create"), reply \in CallReplies, h \in Handles :
         cin' = [sig |-> sig, reply |-> reply, handle |-> h]
    /\ crun' = [o \in Orders |-> NoRun]
    /\ UNCHANGED <<captureVars, wireVars, handleVars, inputVars, subVars>>

\* lines 72-89: the Response signal arrives in the run of order o
CorrSignal(o) ==
    /\ cin # NoInput
    /\ crun[o].out.st = "pending"
    /\ crun[o].sigRes.st = "pending"
    /\ o = "reply_first" => crun[o].callRes.st # "pending"
    /\ crun' = [crun EXCEPT ![o] = TryJoinResolve(@, "sigRes", SignalFuture(cin.sig),
                                                  RequestPath(cin.handle))]
    /\ UNCHANGED <<cin, captureVars, wireVars, handleVars, inputVars, subVars>>

\* line 90: the direct reply of the call arrives in the run of order o
CorrReply(o) ==
    /\ cin # NoInput
    /\ crun[o].out.st = "pending"
    /\ crun[o].callRes.st = "pending"
    /\ o = "signal_first" => crun[o].sigRes.st # "pending"
    /\ crun' = [crun EXCEPT ![o] = TryJoinResolve(@, "callRes", CallFuture(cin.reply),
                                                  RequestPath(cin.handle))]
    /\ UNCHANGED <<cin, captureVars, wireVars, handleVars, inputVars, subVars>>

\* Both runs returned; the next request
CorrDone ==
    /\ cin # NoInput
    /\ \A o \in Orders : crun[o].out.st # "pending"
    /\ cin' = NoInput
    /\ crun' = [o \in Orders |-> NoRun]
    /\ UNCHANGED <<captureVars, wireVars, handleVars, inputVars, subVars>>

CorrNext == CorrStart \/ (\E o \in Orders : CorrSignal(o) \/ CorrReply(o)) \/ CorrDone

SpecCorr == Init /\ [][CorrNext]_vars


----------------------------------------------------------------------------
(* input.rs: InputManager::listen and the two emitters *)

\* The events sent on the channel in one run of the model
MaxBatches == 2

KeyDown == [key |-> "KEY_A", direction |-> 1]
KeyUp == [key |-> "KEY_A", direction |-> 0]
MoveRight == [x |-> 3, y |-> 0, wheel |-> 0]
MoveAndScroll == [x |-> -1, y |-> 2, wheel |-> 1]
ButtonDown == [key |-> "BTN_LEFT", direction |-> 1]
ButtonUp == [key |-> "BTN_LEFT", direction |-> 0]

\* The batches a sender puts in an event
KeyBatches == { <<>>, <<KeyDown>>, <<KeyDown, KeyUp>>, <<KeyUp, KeyDown>> }
MoveBatches == { <<MoveAndScroll>>, <<MoveRight, MoveAndScroll>>, <<MoveAndScroll, MoveRight>> }
ButtonBatches == { <<ButtonDown>>, <<ButtonDown, ButtonUp>> }

\* InputManagerEvent: Keyboard(Vec<KeyEvent>),
\* Mouse(Option<Vec<MouseMoveEvent>>, Option<Vec<MouseButtonEvent>>)
Optional(S) == {None} \cup { Some(x) : x \in S }

InputManagerEvents ==
    { [kind |-> "Keyboard", keys |-> ks] : ks \in KeyBatches }
      \cup { [kind |-> "Mouse", moves |-> ms, buttons |-> bs] :
               ms \in Optional(MoveBatches), bs \in Optional(ButtonBatches) }

InputEvent(type, code, value) == [type |-> type, code |-> code, value |-> value]

\* impl From<KeyEvent> for InputEvent, impl From<MouseButtonEvent> for InputEvent
KeyInputEvent(k) == InputEvent("KEY", k.key, k.direction)

\* MouseMoveEvent::get_input_events: one event for each axis that moved
get_input_events(m) ==
    (IF m.x # 0 THEN <<InputEvent("RELATIVE", "REL_X", m.x)>> ELSE <<>>)
      \o (IF m.y # 0 THEN <<InputEvent("RELATIVE", "REL_Y", m.y)>> ELSE <<>>)
      \o (IF m.wheel # 0
          THEN <<InputEvent("RELATIVE", "REL_HWHEEL_HI_RES", m.wheel)>> ELSE <<>>)

\* move_event.iter().flat_map(|mme| mme.get_input_events())
RECURSIVE MoveInputEvents(_)
MoveInputEvents(ms) ==
    IF ms = <<>> THEN <<>> ELSE get_input_events(Head(ms)) \o MoveInputEvents(Tail(ms))

MapKeys(ks) == [i \in 1..Len(ks) |-> KeyInputEvent(ks[i])]

\* send_keyboard_events: what is handed to keyboard.emit
send_keyboard_events(key_event) == [dev |-> "keyboard", events |-> MapKeys(key_event)]

\* send_mouse_events with the button events put before the move events
send_mouse_events_buttons_first(move_event, click_events) ==
    [dev |-> "mouse", events |-> MapKeys(click_events) \o MoveInputEvents(move_event)]

\* send_mouse_events: what is handed to mouse.emit
send_mouse_events(move_event, click_events) ==
    [dev |-> "mouse", events |-> MoveInputEvents(move_event) \o MapKeys(click_events)]

\* as_ref().as_slice() of an optional batch, &[] for None
AsSlice(o) == IF IsSome(o) THEN Unwrap(o) ELSE <<>>

\* The match on the received event, lines 298-321
Dispatch(msg) ==
    IF msg.kind = "Keyboard" THEN send_keyboard_events(msg.keys)
    ELSE send_mouse_events(AsSlice(msg.moves), AsSlice(msg.buttons))

\* A holder of the Sender sends one event
InputSend ==
    /\ itx
    /\ Len(isent) < MaxBatches
    /\ \E msg \in InputManagerEvents :
         /\ iq' = Append(iq, msg)
         /\ isent' = Append(isent, msg)
    /\ UNCHANGED <<iout, ipc, ids, itx, captureVars, wireVars, handleVars, corrVars, subVars>>

\* The holders of the Sender drop it
InputSenderDropped ==
    /\ itx
    /\ itx' = FALSE
    /\ UNCHANGED <<iq, isent, iout, ipc, ids, captureVars, wireVars, handleVars, corrVars, subVars>>

\* The shutdown broadcast reaches the Receiver given to InputManager::new
InputShutdown ==
    /\ ids = 0
    /\ ids' = 1
    /\ UNCHANGED <<iq, isent, iout, ipc, itx, captureVars, wireVars, handleVars, corrVars, subVars>>

\* lines 292-294: ds.try_recv().is_ok() ends the loop
InputCheckShutdown ==
    /\ ipc = "check"
    /\ IF ids > 0 THEN ipc' = "stopped" /\ ids' = ids - 1
       ELSE ipc' = "recv" /\ UNCHANGED ids
    /\ UNCHANGED <<iq, isent, iout, itx, captureVars, wireVars, handleVars, corrVars, subVars>>

\* lines 296-325: rx.recv().await, the dispatch, the emit and its result
InputRecv ==
    /\ ipc = "recv"
    /\ IF iq # <<>>
       THEN /\ \E emitOk \in BOOLEAN :
                 iout' = Append(iout, Dispatch(Head(iq)) @@ [ok |-> emitOk])
            /\ iq' = Tail(iq)
            /\ ipc' = "check"
       ELSE /\ ~itx
            /\ ipc' = "stopped"
            /\ UNCHANGED <<iq, iout>>
    /\ UNCHANGED <<isent, ids, itx, captureVars, wireVars, handleVars, corrVars, subVars>>

\* The next run of the model
InputReset ==
    /\ ipc = "stopped"
    /\ iq' = <<>> /\ isent' = <<>> /\ iout' = <<>>
    /\ ipc' = "check" /\ ids' = 0 /\ itx' = TRUE
    /\ UNCHANGED <<captureVars, wireVars, handleVars, corrVars, subVars>>

InputNext ==
    \/ InputSend
    \/ InputSenderDropped
    \/ InputShutdown
    \/ InputCheckShutdown
    \/ InputRecv
    \/ InputReset

SpecInput == Init /\ [][InputNext]_vars


----------------------------------------------------------------------------
(* session_request.rs: the subscription of call_and_receive_response! and a
   broker that emits the Response signal at any time after it got the call *)

\* The macro issues the call first and subscribes afterwards
MacroOrderCallFirst == <<"call", "subscribe">>

\* The macro subscribes (line 70) and then polls the join, whose first poll
\* sends the call (lines 71-91)
MacroOrder == <<"subscribe", "call">>

\* The Response signals the broker can emit for the three requests
ResponseSignals ==
    (Signals("create") \cup Signals("select") \cup Signals("start")) \ {StreamEnd}

SubAt(what) == sub.at <= Len(MacroOrder) /\ MacroOrder[sub.at] = what

\* line 70: $req.receive_response().await: the signal stream exists
SubSubscribe ==
    /\ SubAt("subscribe")
    /\ sub' = [sub EXCEPT !.at = @ + 1, !.subscribed = TRUE]
    /\ UNCHANGED <<captureVars, wireVars, handleVars, corrVars, inputVars>>

\* line 90: $future.await: the method call goes to the broker
SubIssueCall ==
    /\ SubAt("call")
    /\ sub' = [sub EXCEPT !.at = @ + 1, !.called = TRUE]
    /\ UNCHANGED <<captureVars, wireVars, handleVars, corrVars, inputVars>>

\* The broker emits the Response signal of a call it received; a signal for
\* which no stream exists is delivered to nobody
BrokerEmits ==
    /\ sub.called
    /\ ~sub.emitted
    /\ \E sig \in ResponseSignals :
         sub' = [sub EXCEPT !.emitted = TRUE,
                            !.buffered = IF sub.subscribed THEN Append(@, sig) ELSE @,
                            !.lost = ~sub.subscribed]
    /\ UNCHANGED <<captureVars, wireVars, handleVars, corrVars, inputVars>>

\* The broker sends the direct reply of the call
BrokerReplies ==
    /\ sub.called
    /\ sub.reply.st = "pending"
    /\ \E reply \in CallReplies :
         sub' = [sub EXCEPT !.reply = CallFuture(reply)]
    /\ UNCHANGED <<captureVars, wireVars, handleVars, corrVars, inputVars>>

\* lines 72-76: stream.next().await yields the signal that was queued
SubTakeSignal ==
    /\ sub.at > Len(MacroOrder)
    /\ sub.got = NoSignal
    /\ sub.buffered # <<>>
    /\ sub' = [sub EXCEPT !.got = Head(sub.buffered), !.buffered = Tail(@)]
    /\ UNCHANGED <<captureVars, wireVars, handleVars, corrVars, inputVars>>

\* The macro has its value, or the run is given up; the next request
SubDone ==
    /\ sub.at > Len(MacroOrder)
    /\ sub.emitted
    /\ sub.got # NoSignal \/ sub.lost
    /\ sub.reply.st # "pending"
    /\ sub' = [at |-> 1, subscribed |-> FALSE, called |-> FALSE, emitted |-> FALSE,
               buffered |-> <<>>, lost |-> FALSE, got |-> NoSignal, reply |-> Pending]
    /\ UNCHANGED <<captureVars, wireVars, handleVars, corrVars, inputVars>>

SubNext ==
    \/ SubSubscribe
    \/ SubIssueCall
    \/ BrokerEmits
    \/ BrokerReplies
    \/ SubTakeSignal
    \/ SubDone

SpecSub == Init /\ [][SubNext]_vars

----------------------------------------------------------------------------
(* Properties of begin_capture and of the request correlator *)

\* C1: once a begin_capture() call of a manager has completed successfully,
\* every later call on that manager fails with AlreadyStarted and sends no
\* request to the broker: the manager is never again inside a negotiation
C1_AlreadyStartedAfterSuccess ==
    succeeded =>
        /\ pc = "idle"
        /\ brokerCalls = <<>>
        /\ result.tag = "ok" \/ result = ErrResult("AlreadyStarted")

\* The step that evaluates a correlation whose two futures both resolved to Ok
CorrelationEvaluated == Joined /\ pc' # "join"

\* C2: when the signal carries status 0 and a well-formed body but the path of
\* the Request the broker call returned differs from the path subscribed on,
\* the correlation evaluates to the SpoofedReply error and hands no payload
\* on, whatever the payload is
C2_SpoofedReplyOnPathMismatch ==
    [][ ( /\ CorrelationEvaluated
          /\ sigMsg.kind = "msg" /\ sigMsg.code = 0 /\ sigMsg.wellFormed
          /\ callRes.path # RequestPath(opts.handle_token) )
        => ( /\ lastCorr'.out = "err"
             /\ lastCorr'.err = SpoofedReply
             /\ lastCorr'.val = NoPayload
             /\ result' = ErrResult(SpoofedReply)
             /\ pc' = "idle"
             /\ sessionPath' = None
             /\ startRes' = NoPayload
             /\ token' = token ) ]_vars

\* C2, its case: a start-cast signal with a full payload was correlated with a
\* reply that names the Request of somebody else, and was refused
C2_Witness ==
    /\ lastCorr.step = "start"
    /\ lastCorr.sigKind = "msg" /\ lastCorr.code = 0 /\ lastCorr.wellFormed
    /\ IsSome(lastCorr.sigPayload.restore_token)
    /\ lastCorr.sigPayload.streams # <<>>
    /\ lastCorr.callSt = "ok"
    /\ lastCorr.rpPath # lastCorr.reqPath
    /\ lastCorr.out = "err"
    /\ result = ErrResult(SpoofedReply)

\* The three checks the design names, on what a correlation saw
StatusIsSuccess(c) == c.sigKind = "msg" /\ c.code = 0
CallSucceeded(c) == c.callSt = "ok"
PathsEqual(c) == c.rpPath = c.reqPath
BodyDecodes(c) == c.sigKind = "msg" /\ c.wellFormed

ReturnsPayload(c) == c.out = "ok" /\ c.val = c.sigPayload
ReturnsError(c) == c.out = "err" /\ c.val = NoPayload

\* C3 as stated: a correlation returns the typed payload if and only if the
\* status code is 0, the broker call succeeded and the two paths are equal; in
\* every other case it returns an error and no payload
C3_PayloadIffThreeChecks ==
    lastCorr.step # "none" =>
        IF StatusIsSuccess(lastCorr) /\ CallSucceeded(lastCorr) /\ PathsEqual(lastCorr)
        THEN ReturnsPayload(lastCorr)
        ELSE ReturnsError(lastCorr)

\* C3 amended: a correlation returns the typed payload if and only if a signal
\* arrived whose body decodes as (status, payload of the expected type), the
\* status code is 0, the broker call succeeded and the two paths are equal; in
\* every other case it returns an error and no payload
C3_PayloadIffBodyAndThreeChecks ==
    lastCorr.step # "none" =>
        IF /\ BodyDecodes(lastCorr)
           /\ StatusIsSuccess(lastCorr)
           /\ CallSucceeded(lastCorr)
           /\ PathsEqual(lastCorr)
        THEN ReturnsPayload(lastCorr)
        ELSE ReturnsError(lastCorr)

\* C3, its case: the start-cast correlation passed every check and returned
\* the payload of the signal
C3_Witness ==
    /\ lastCorr.step = "start"
    /\ BodyDecodes(lastCorr) /\ StatusIsSuccess(lastCorr)
    /\ CallSucceeded(lastCorr) /\ PathsEqual(lastCorr)
    /\ lastCorr.out = "ok"
    /\ lastCorr.val.streams # <<>>
    /\ lastCorr.val = lastCorr.sigPayload

\* The records of a raw source list that carry both an identifier and a size,
\* in the order of the list
RECURSIVE ViableRecords(_)
ViableRecords(l) ==
    IF l = <<>> THEN <<>>
    ELSE (IF IsSome(Head(l).size) /\ IsSome(Head(l).id) THEN <<Head(l)>> ELSE <<>>)
         \o ViableRecords(Tail(l))

\* begin_capture is about to return Ok and every registration succeeded
AllRegistered ==
    /\ pc = "register"
    /\ regIdx > Len(desktops)
    /\ Len(ported) = Len(desktops)

\* C4: when start-cast returned N records of which K carry an identifier and
\* a size, and every registration succeeded, begin_capture() returns K
\* Desktops in the order of the raw list whose indices are 0, 1, ..., K-1
C4_SequentialIndices ==
    AllRegistered =>
        LET kept == ViableRecords(startRes.streams) IN
        /\ Len(ported) = Len(kept)
        /\ \A k \in 1..Len(kept) :
             /\ ported[k].pipewire_path = kept[k].path
             /\ ported[k].id = Unwrap(kept[k].id)
             /\ ported[k].loded_id = k - 1


\* What the last successful token write put in durable storage is what
\* start-cast returned
StoreHoldsStartToken ==
    (pc = "register" /\ writeOk) =>
        /\ lastCorr.step = "start"
        /\ IsSome(store)
        /\ store = lastCorr.sigPayload.restore_token

\* The select-sources call of the first begin_capture of a manager carries the
\* token that was read from the store, and none when the store is empty
SelectPassesStoredToken ==
    \A k \in 1..Len(brokerCalls) :
        (brokerCalls[k].method = "select" /\ mgrRuns = 1) =>
            /\ IsSome(tokenRead) => brokerCalls[k].restore_token = storeAtStart
            /\ storeAtStart = None => brokerCalls[k].restore_token = None

\* The store is written by the token write of begin_capture and by nothing else
StoreWrittenOnlyByPersist == store' # store => (pc = "persist" /\ pc' = "register")

\* C5: after a negotiation whose token write succeeded the stored token is the
\* restore token start-cast returned; the next negotiation, by a fresh manager
\* that reads the store, passes exactly that token in its select-sources call,
\* and a first negotiation with an empty store passes none
C5_RestoreTokenRoundTrip ==
    /\ [](StoreHoldsStartToken /\ SelectPassesStoredToken)
    /\ [][StoreWrittenOnlyByPersist]_vars

\* C5, its case: a fresh manager found the token an earlier negotiation wrote
\* and sent it with select-sources
C5_Witness ==
    /\ mgrRuns = 1
    /\ storeAtStart = Some("tokB")
    /\ tokenRead = Some("tokB")
    /\ Len(brokerCalls) >= 2
    /\ brokerCalls[2].method = "select"
    /\ brokerCalls[2].restore_token = Some("tokB")

Methods(calls) == [k \in 1..Len(calls) |-> calls[k].method]

\* A broker call is sent: it is the next of create, select, start, and the
\* correlation of the step before it returned Ok with both futures resolved
CallInOrder ==
    (brokerCalls' # brokerCalls /\ brokerCalls' # <<>>) =>
        LET c == brokerCalls'[Len(brokerCalls')] IN
        /\ brokerCalls' = Append(brokerCalls, c)
        /\ c.method \in {"create", "select", "start"}
        /\ c.method = "create" => brokerCalls = <<>>
        /\ c.method = "select" =>
             /\ Methods(brokerCalls) = <<"create">>
             /\ lastCorr.step = "create" /\ lastCorr.out = "ok"
             /\ lastCorr.sigKind = "msg" /\ lastCorr.callSt = "ok"
             /\ IsSome(c.session)
             /\ c.session = lastCorr.val.session_handle
        /\ c.method = "start" =>
             /\ Methods(brokerCalls) = <<"create", "select">>
             /\ lastCorr.step = "select" /\ lastCorr.out = "ok"
             /\ lastCorr.sigKind = "msg" /\ lastCorr.callSt = "ok"
             /\ c.session = brokerCalls[2].session

\* A failed correlation ends begin_capture with its error
FailedCorrelationEndsCall ==
    lastCorr.out = "err" =>
        /\ pc = "idle"
        /\ result = ErrResult(lastCorr.err)
        /\ brokerCalls = <<>>

\* C6: within one begin_capture() the broker steps happen in the order
\* create-session, select-sources, start-cast, each after the correlation of
\* the one before succeeded; when a correlation fails no later step is issued
\* and begin_capture() fails
C6_StepOrder ==
    /\ [][CallInOrder]_vars
    /\ []FailedCorrelationEndsCall

\* C6, its case: the three calls of one negotiation were sent
C6_Witness ==
    /\ Methods(brokerCalls) = <<"create", "select", "start">>
    /\ pc = "join"

\* The supervising task of the k-th Desktop of the returned list
TaskOfReturned(k) == tasks[Len(tasks) - Len(result.desktops) + k]

\* C7: a Desktop whose encoder process could not be spawned is absent from
\* the list begin_capture() returned: every returned Desktop has a task with
\* its port whose spawn did not fail
C7_SpawnFailureDropsDesktop ==
    result.tag = "ok" =>
        \A k \in 1..Len(result.desktops) :
            /\ result.desktops[k].port = Some(TaskOfReturned(k).port)
            /\ TaskOfReturned(k).pc # "panicked"

\* C8: when the create-session correlation succeeds and the reply carries no
\* session handle, begin_capture() returns an error to its caller, does not
\* panic, and sends no select-sources or start-cast call
C8_MissingHandleReturnsError ==
    [][ ( /\ CorrelationEvaluated
          /\ step = "create"
          /\ JoinResult.st = "ok"
          /\ ~IsSome(sigMsg.payload.session_handle) )
        => ( /\ pc' = "idle"
             /\ result'.tag = "err"
             /\ brokerCalls' = <<>> ) ]_vars


----------------------------------------------------------------------------
(* Properties of the supervising tasks *)

\* The encoder of task i was spawned by a registration that completed before
\* the shutdown broadcast, and the broadcast has been sent
SpawnedBeforeShutdown(i) ==
    /\ i \in TaskIds
    /\ shutdownSent
    /\ tasks[i].regBefore
    /\ tasks[i].pc = "waiting"

KillSent(i) == i \in TaskIds /\ tasks[i].pc \in {"killed", "kill_failed"}

\* C9: once the shutdown signal has been broadcast, every encoder process
\* spawned by a registration that completed before the broadcast is eventually
\* sent a kill by its supervising task, the tasks being scheduled fairly
C9_ShutdownKillsEncoders ==
    \A i \in 1..MaxTasks : SpawnedBeforeShutdown(i) ~> KillSent(i)

\* C9, its case: the task of a registration made before the broadcast has
\* called kill on its child
C9_Witness ==
    \E i \in TaskIds :
        /\ shutdownSent
        /\ tasks[i].regBefore
        /\ tasks[i].pc = "killed"

----------------------------------------------------------------------------
(* Properties of the wire protocol *)

\* C10: for every packet variant and every valid value x, DesktopList with 0,
\* 1 and 3 entries included, decoding the bytes that encoding x produced
\* yields a value equal to x field by field
C10_WireRoundTrip ==
    wpc = "decoded" => (wdec.ok /\ SameFields(wdec.val, wpkt))


\* A frame with the Handshake tag arrived and was parsed as a Handshake
HandshakeParsed ==
    wpc = "parsed" /\ wpkt.kind = "Handshake" /\ wframe.packet_type = TagOf("Handshake")

\* C11: decoding a Handshake succeeds only when the declared payload length
\* is exactly 9 bytes, and with every other declared length it fails with
\* InvalidPacketLength
C11_HandshakeLengthIsNine ==
    HandshakeParsed =>
        IF wframe.packet_length = 9
        THEN wdec.ok
        ELSE ~wdec.ok /\ wdec.err = "InvalidPacketLength"

\* A frame with the DesktopList tag arrived and was parsed as a DesktopList
DesktopListParsed ==
    wpc = "parsed" /\ wpkt.kind = "DesktopList"
        /\ wframe.packet_type = TagOf("DesktopList")

\* The bytes present disagree with 8 + count * 16, count being the leading
\* 8 bytes of the payload
CountDisagrees(f) ==
    \/ Len(f.packet_data) < 8
    \/ Len(f.packet_data) #
         8 + DesktopSize * U64Value(SubSeq(f.packet_data, 1, 8))

\* C12: decoding a DesktopList whose payload byte count is not 8 + count * 16
\* fails with InvalidPacketLength and yields no desktop records
C12_DesktopListLengthChecked ==
    (DesktopListParsed /\ CountDisagrees(wframe)) =>
        /\ ~wdec.ok
        /\ wdec.err = "InvalidPacketLength"
        /\ wdec.val.kind = "none"

\* C13: encoding Handshake(api_revision, accepted) gives tag 0, length 9 and
\* the payload: the 8 little-endian bytes of api_revision, then one byte that
\* is 1 when accepted and 0 otherwise
C13_HandshakeEncoding ==
    (wpc = "encoded" /\ wpkt.kind = "Handshake") =>
        /\ Frame(wpkt.kind, wbytes).packet_type = 0
        /\ Frame(wpkt.kind, wbytes).packet_length = 9
        /\ wbytes = to_le_bytes(wpkt.api_revision, 8)
                      \o <<IF wpkt.accepted THEN 1 ELSE 0>>

\* C14: encoding a DesktopList of n entries gives tag 1 and a payload of
\* 8 + 16 * n bytes: the 8-byte little-endian count, then the records one
\* after the other without gaps, record i in bytes 8 + 16 * i .. 8 + 16 * i + 15
\* as 8-byte id, 4-byte width, 4-byte height
C14_DesktopListEncoding ==
    (wpc = "encoded" /\ wpkt.kind = "DesktopList") =>
        /\ Frame(wpkt.kind, wbytes).packet_type = 1
        /\ Len(wbytes) = 8 + 16 * Len(wpkt.data)
        /\ SubSeq(wbytes, 1, 8) = to_le_bytes(Len(wpkt.data), 8)
        /\ \A i \in 0..(Len(wpkt.data) - 1) :
             SubSeq(wbytes, 8 + 16 * i + 1, 8 + 16 * i + 16)
               = RecordBytes(wpkt.data[i + 1])


----------------------------------------------------------------------------
(* Properties of the handle tokens *)

\* C15: no two handle tokens generated in one process lifetime are equal; in
\* particular the request handles of create-session, select-sources and
\* start-cast of one begin_capture() are pairwise distinct
C15_HandlesDistinct ==
    \A i \in 1..Len(hdrawn), j \in 1..Len(hdrawn) :
        i < j => hdrawn[i].token # hdrawn[j].token


\* A create-session request of the current begin_capture is with the broker
CreateSessionIssued ==
    \E k \in 1..Len(brokerCalls) : brokerCalls[k].method = "create"

\* C16: at most one broker Session created by one manager is live: no second
\* create-session is issued while the Session of an earlier successful
\* begin_capture() of that manager still exists
C16_OneLiveSession == succeeded => ~CreateSessionIssued


\* The errors the design names BrokerRejected and BrokerCallFailed, as the
\* macro builds them (session_request.rs lines 85-87 and line 90)
BrokerRejected == "Failed(Interaction Cancelled)"
BrokerCallFailed == "ZBus(Call)"

\* The correlation last evaluated saw a Response signal with a status other
\* than Success
SignalNotSuccess == lastCorr.sigKind = "msg" /\ lastCorr.code # 0

\* C17: a correlation whose signal carries a non-success status code fails with
\* BrokerRejected, one whose broker call fails fails with BrokerCallFailed, and
\* each of the two errors differs from SpoofedReply
C17_RejectedAndCallFailed ==
    /\ SignalNotSuccess => (lastCorr.out = "err" /\ lastCorr.err = BrokerRejected)
    /\ lastCorr.callSt = "err" => (lastCorr.out = "err" /\ lastCorr.err = BrokerCallFailed)
    /\ BrokerRejected # SpoofedReply
    /\ BrokerCallFailed # SpoofedReply


----------------------------------------------------------------------------
(* Properties of the correlator under the two orders of arrival *)

\* Both runs of the macro on the same signal and the same reply returned
BothReturned == cin # NoInput /\ \A o \in Orders : crun[o].out.st # "pending"

\* Every run whose signal future and call future both resolved has returned
CompletesOnceResolved ==
    \A o \in Orders :
        (crun[o].sigRes.st # "pending" /\ crun[o].callRes.st # "pending") =>
            crun[o].out.st # "pending"

\* The signal future and the call future both fail on the inputs
BothFail == SignalFuture(cin.sig).st = "err" /\ CallFuture(cin.reply).st = "err"

\* For the same call reply and the same signal the result of a correlation is
\* the same whether the signal arrives before the reply or after it, and the
\* correlator completes in both orders once both have resolved
C18_SameResultInBothOrders ==
    /\ CompletesOnceResolved
    /\ BothReturned => crun["signal_first"].out = crun["reply_first"].out

\* C18: for the same call reply and the same signal the result of a
\* correlation is the same in both orders of arrival unless the signal future
\* and the call both fail; then the correlation returns the error of the one
\* that resolved first; the correlator completes in both orders once both
\* have resolved
C18_SameResultUnlessBothFail ==
    /\ CompletesOnceResolved
    /\ BothReturned =>
         IF BothFail
         THEN /\ crun["signal_first"].out = SignalFuture(cin.sig)
              /\ crun["reply_first"].out = CallFuture(cin.reply)
         ELSE crun["signal_first"].out = crun["reply_first"].out

\* Both orders returned the same error after the signal reported Cancelled and
\* the call succeeded, the signal having waited for the reply in one of them
C18_Witness ==
    /\ BothReturned
    /\ cin.sig.kind = "msg" /\ cin.sig.code = 1 /\ cin.sig.wellFormed
    /\ cin.reply.ok
    /\ crun["reply_first"].callRes.st = "ok"
    /\ crun["reply_first"].out = Err(BrokerRejected)
    /\ crun["signal_first"].out = Err(BrokerRejected)


\* The token load of the current begin_capture failed or found no store
TokenLoadFailed == ~IsSome(tokenRead)

\* C19: whenever loading the restore token fails or the store is absent at the
\* start of a begin_capture(), the select-sources call of that negotiation
\* carries no restore token, whatever happened on the manager before
C19_NoTokenAfterFailedLoad ==
    \A k \in 1..Len(brokerCalls) :
        (brokerCalls[k].method = "select" /\ TokenLoadFailed) =>
            brokerCalls[k].restore_token = None


\* The three requests of the current begin_capture were issued and the last
\* correlation evaluated, that of start-cast, returned a payload
AllThreeSucceeded ==
    /\ Methods(brokerCalls) = <<"create", "select", "start">>
    /\ lastCorr.step = "start"
    /\ lastCorr.out = "ok"

\* A step that changes the store is the token write that follows a successful
\* start-cast
StoreWrittenAfterSuccessOnly ==
    store' # store => (pc = "persist" /\ AllThreeSucceeded)

\* The step in which begin_capture returns the error of a failed correlation
\* leaves the store as the call found it
FailedNegotiationKeepsStore ==
    (pc # "idle" /\ pc' = "idle" /\ lastCorr'.out = "err") =>
        (store' = storeAtStart /\ store' = store)

\* No step of a negotiation before the token write has touched the store
StoreKeptUntilWrite ==
    pc \in {"subscribe", "call", "join", "persist"} => store = storeAtStart

\* C20: the durable restore-token store is written only at the end of a
\* negotiation in which all three correlations succeeded; when create-session,
\* select-sources or start-cast fails the stored token is unchanged by that
\* begin_capture()
C20_StoreWrittenOnSuccessOnly ==
    /\ []StoreKeptUntilWrite
    /\ [][StoreWrittenAfterSuccessOnly /\ FailedNegotiationKeepsStore]_vars

\* C20, its case: a negotiation found a stored token, failed at start-cast and
\* returned with the store unchanged
C20_Witness ==
    /\ pc = "idle"
    /\ result.tag = "err"
    /\ lastCorr.step = "start"
    /\ lastCorr.out = "err"
    /\ store = Some("tokA")


----------------------------------------------------------------------------
(* Properties of the token write, the registrations and the return *)

\* The Desktop d without its port
Unported(d) == [d EXCEPT !.port = None]

\* xs is ys with some elements left out, the order kept
RECURSIVE IsSubSeq(_, _)
IsSubSeq(xs, ys) ==
    IF xs = <<>> THEN TRUE
    ELSE IF ys = <<>> THEN FALSE
    ELSE IF Head(xs) = Head(ys) THEN IsSubSeq(Tail(xs), Tail(ys))
    ELSE IsSubSeq(xs, Tail(ys))

\* The token write, failed or not, is followed by the registrations of the
\* viable streams of the start-cast response
WriteNeverEndsCall ==
    (pc = "persist" /\ pc' # "persist") =>
        /\ pc' = "register"
        /\ desktops' = FilterDesktops(lastCorr.sigPayload.streams)

\* After a failed write begin_capture returns Ok with the Desktops that were
\* registered, which are viable streams of the response in their order
ReturnsOkAfterFailedWrite ==
    (pc = "register" /\ ~writeOk /\ pc' # "register") =>
        /\ result' = OkResult(ported)
        /\ IsSubSeq([k \in 1..Len(ported) |-> Unported(ported[k])],
                    FilterDesktops(lastCorr.sigPayload.streams))

\* C21: when writing the new restore token fails after a successful start-cast,
\* begin_capture() still succeeds and returns the Desktop list it would have
\* returned had the write succeeded
C21_WriteFailureIsSoft == [][WriteNeverEndsCall /\ ReturnsOkAfterFailedWrite]_vars

\* C21, its case: begin_capture returned a Desktop although the store does not
\* hold the token start-cast returned
C21_Witness ==
    /\ pc = "idle"
    /\ result.tag = "ok"
    /\ Len(result.desktops) = 1
    /\ lastCorr.step = "start"
    /\ lastCorr.out = "ok"
    /\ store # lastCorr.sigPayload.restore_token


\* The supervising task t has launched its encoder process
EncoderLaunched(t) == t.pc \in {"waiting", "killed", "kill_failed", "no_signal"}

\* C22: every Desktop of the list begin_capture() returned has a port, one
\* encoder process was launched for it, and the process was given the
\* Desktop's source path, width, height and port
C22_ReturnedDesktopHasEncoder ==
    result.tag = "ok" =>
        \A k \in 1..Len(result.desktops) :
            LET d == result.desktops[k]
                t == TaskOfReturned(k)
            IN /\ IsSome(d.port)
               /\ EncoderLaunched(t)
               /\ t.path = d.pipewire_path
               /\ t.width = d.width
               /\ t.height = d.height
               /\ Some(t.port) = d.port


\* The task was registered before the shutdown broadcast, which was then sent
RegisteredThenShutdown(t) == t.regBefore /\ shutdownSent

\* C23: each supervising task's subscription to the shutdown broadcast exists
\* when the task is created, so a broadcast sent at any time after the
\* registration call returned is queued for that task and observed by its
\* recv(): none is missed
C23_NoShutdownMissed ==
    \A i \in TaskIds :
        RegisteredThenShutdown(tasks[i]) =>
            /\ TaskLive(tasks[i]) => tasks[i].rx.inbox > 0
            /\ tasks[i].pc # "no_signal"

\* C23, its case: the broadcast was sent after begin_capture returned and
\* before the task ran for the first time, and it is waiting in the receiver
C23_Witness ==
    /\ pc = "idle"
    /\ result.tag = "ok"
    /\ shutdownSent
    /\ \E i \in TaskIds :
         /\ tasks[i].regBefore
         /\ tasks[i].pc = "created"
         /\ tasks[i].rx.inbox = 1


\* The three correlations succeeded: begin_capture is at the token write or in
\* the registrations
NegotiationDone == pc \in {"persist", "register"}

\* begin_capture returned Ok
ReturnedOk == pc = "idle" /\ result.tag = "ok"

\* C24: begin_capture() does not wait for any supervising task: once the three
\* correlations have succeeded and every registration call has returned it
\* returns, even if no shutdown is ever broadcast and no task ever finishes
C24_ReturnsWithoutWaiting == NegotiationDone ~> ReturnedOk

\* C24, its case: begin_capture returned a Desktop whose supervising task has
\* not run yet, and no shutdown was broadcast
C24_Witness ==
    /\ ReturnedOk
    /\ Len(result.desktops) = 1
    /\ ~shutdownSent
    /\ TaskOfReturned(1).pc = "created"


\* begin_capture leaves the join of a correlation for which no Response signal
\* arrived and whose signal stream did not end
LeavesJoinWithoutSignal ==
    pc = "join" /\ pc' # "join" /\ lastCorr'.sigKind = "none"

\* While the broker sends no Response signal and does not close the signal
\* stream for an issued request, begin_capture() stays suspended whatever the
\* direct reply of the call is: it returns neither a result nor an error
C25_SuspendedWithoutSignal == [][~LeavesJoinWithoutSignal]_vars

\* C25: while the broker sends no Response signal and does not close the signal
\* stream for an issued request, begin_capture() stays suspended when the
\* direct reply of the call is Ok or outstanding; when the call itself fails it
\* returns the call's error at once
C25_SuspendedUnlessCallFails ==
    [][LeavesJoinWithoutSignal =>
          /\ callRes.st = "pending"
          /\ lastCorr'.callSt = "err"
          /\ pc' = "idle"
          /\ result' = ErrResult(BrokerCallFailed)]_vars

\* C25, its case: a call failed while no signal had arrived and begin_capture
\* returned the call's error
C25_Witness ==
    /\ pc = "idle"
    /\ result = ErrResult(BrokerCallFailed)
    /\ lastCorr.step = "start"
    /\ lastCorr.sigKind = "none"
    /\ lastCorr.callSt = "err"


\* The supervising task of the k-th Desktop registered by the current call
TaskOfPorted(k) == tasks[Len(tasks) - Len(ported) + k]

\* C26: in each encoder registration the port is bound, its number read and
\* the listener released before the encoder process is spawned: the port the
\* caller gets is the one fixed at the bind, and the daemon holds no listener
\* on it from the creation of the task on, so not when the process starts
C26_PortReleasedBeforeSpawn ==
    /\ \A i \in TaskIds :
         /\ ~tasks[i].listener.open
         /\ tasks[i].listener.port = tasks[i].port
    /\ \A k \in 1..Len(ported) : ported[k].port = Some(TaskOfPorted(k).listener.port)

\* C26, its case: an encoder process was started for a registered Desktop
C26_Witness ==
    /\ pc = "register"
    /\ Len(ported) = 1
    /\ TaskOfPorted(1).pc = "waiting"
    /\ ported[1].port = Some(TaskOfPorted(1).port)


\* A frame with the tag of the fixed-size variant T arrived and was parsed as T
FixedParsed(T) ==
    wpc = "parsed" /\ wpkt.kind = T /\ wframe.packet_type = TagOf(T)

\* The declared length decides the decoding of the variant T of n payload bytes
LengthDecides(T, n) ==
    FixedParsed(T) =>
        IF wframe.packet_length = n
        THEN wdec.ok
        ELSE ~wdec.ok /\ wdec.err = "InvalidPacketLength"

\* C27: decoding an End packet succeeds only when its declared payload length
\* is 0 and decoding a SwitchSource packet only when it is 8; every other
\* declared length fails with InvalidPacketLength
C27_FixedLengthsChecked ==
    /\ LengthDecides("End", 0)
    /\ LengthDecides("SwitchSource", 8)


\* The decoder answered with a packet or with one of its two framing errors
PacketOrFramingError ==
    wdec.ok \/ wdec.err \in {"InvalidPacketLength", "InvalidField"}

\* What the decoder handed out lies within the bytes of the buffer
ReadsWithinBuffer ==
    wdec.ok => ReadExtent(wpkt.kind, wframe, wheap) <= Len(wframe.packet_data)

\* C28: for every input buffer, also one whose declared length or record count
\* is larger than the bytes present, the decoder of the variant the tag names
\* returns a decoded packet or a framing error and never reads past the end of
\* the buffer
C28_DecoderStaysInBuffer ==
    (wpc = "parsed" /\ wframe.packet_type = TagOf(wpkt.kind)) =>
        (PacketOrFramingError /\ ReadsWithinBuffer)


----------------------------------------------------------------------------
(* Properties of the input manager *)

IsKey(ev) == ev.type = "KEY"
IsRelative(ev) == ev.type = "RELATIVE"

\* The events of out are those of the keys ks, one for one in their order
KeysInOrder(evs, ks) ==
    /\ Len(evs) = Len(ks)
    /\ \A i \in 1..Len(ks) :
         evs[i] = [type |-> "KEY", code |-> ks[i].key, value |-> ks[i].direction]

\* The emit out carries the device events of the batch msg in the batch's
\* order; for a mouse batch the move events in order, then the button events
BatchOrderKept(msg, out) ==
    IF msg.kind = "Keyboard"
    THEN out.dev = "keyboard" /\ KeysInOrder(out.events, msg.keys)
    ELSE /\ out.dev = "mouse"
         /\ SelectSeq(out.events, IsRelative) = MoveInputEvents(AsSlice(msg.moves))
         /\ KeysInOrder(SelectSeq(out.events, IsKey), AsSlice(msg.buttons))
         /\ \A i \in 1..Len(out.events), j \in 1..Len(out.events) :
              (IsKey(out.events[i]) /\ IsRelative(out.events[j])) => j < i

\* The events are handled in the order they were sent: the k-th emit is that
\* of the k-th event sent, and what is queued is the rest in order
HandledInSendOrder ==
    /\ Len(iout) <= Len(isent)
    /\ iq = SubSeq(isent, Len(iout) + 1, Len(isent))
    /\ \A k \in 1..Len(iout) : BatchOrderKept(isent[k], iout[k])

\* A step that handles a batch, also one whose emit fails, goes back to the
\* head of the loop
FailedEmitGoesOn == iout' # iout => ipc' = "check"

\* C29: the input manager handles queued events in the order they were sent
\* and within one batch emits the device events in the order of the batch (for
\* a mouse batch all move events, then all button events); a failed emit does
\* not stop later batches from being handled
C29_InputOrderKept == []HandledInSendOrder /\ [][FailedEmitGoesOn]_vars

\* C29, its case: the emit of a mouse batch of moves and buttons failed and the
\* keyboard batch sent after it was emitted
C29_Witness ==
    /\ Len(iout) = 2
    /\ isent[1].kind = "Mouse" /\ IsSome(isent[1].moves) /\ IsSome(isent[1].buttons)
    /\ ~iout[1].ok
    /\ isent[2].kind = "Keyboard" /\ Len(isent[2].keys) = 2
    /\ iout[2].ok


----------------------------------------------------------------------------
(* Properties of the subscription *)

\* The broker has the call only when the signal stream exists
SubscribedBeforeCall == sub.called => sub.subscribed

\* A signal the broker emitted is queued in the stream or was taken from it
EmittedIsReceived ==
    sub.emitted => (~sub.lost /\ (sub.buffered # <<>> \/ sub.got # NoSignal))

\* C30: the correlator subscribes to the Response signal before it issues the
\* broker call, so a signal the broker emits at any time after it received the
\* call, also before the direct reply, is received and not lost
C30_SubscribedBeforeCall == SubscribedBeforeCall /\ EmittedIsReceived

\* C30, its case: the correlator took a signal from the stream while the
\* direct reply of the call was still outstanding
C30_Witness ==
    /\ sub.called
    /\ sub.reply.st = "pending"
    /\ sub.got.kind = "msg"

----------------------------------------------------------------------------
(* capture.rs lines 165-219 and 222-264: the registrations of one call of   *)
(* begin_capture whose start-cast reply names MaxStreams sources            *)

\* The reply of a start-cast that names MaxStreams sources and a restore token
StartedPayloads ==
    { [NoPayload EXCEPT !.streams = ss, !.restore_token = Some(t)] :
        ss \in [1..MaxStreams -> StreamKinds], t \in Tokens }

\* The state of begin_capture at line 160, the three correlations done: what
\* Subscribe, IssueCall, SignalArrives, CallReply and AfterStart leave behind
\* for a successful start-cast
PortsInit ==
    /\ WireIdle /\ HandleIdle /\ CorrIdle /\ InputIdle /\ SubIdle
    /\ store = None
    /\ session = None
    /\ succeeded = FALSE
    /\ mgrRuns = 1
    /\ result = NoResult
    /\ pc = "persist"
    /\ step = "start"
    /\ \E h \in Handles : opts = [handle_token |-> h, restore_token |-> None]
    /\ sessionPath = Some("/org/freedesktop/portal/desktop/session/1_42/s")
    /\ \E p \in StartedPayloads :
         /\ sigMsg = Msg(0, TRUE, p)
         /\ sigRes = SignalFuture(sigMsg)
         /\ callRes = CallFuture([ok |-> TRUE, path |-> RequestPath(opts.handle_token)])
         /\ lastCorr = Corr(sigMsg, callRes, JoinResult)
         /\ token = p.restore_token
         /\ startRes = [p EXCEPT !.restore_token = None]
    /\ writeOk = FALSE
    /\ desktops = <<>>
    /\ regIdx = 0
    /\ ported = <<>>
    /\ brokerCalls =
         << [method |-> "create", restore_token |-> None, session |-> None],
            [method |-> "select", restore_token |-> None, session |-> sessionPath],
            [method |-> "start", restore_token |-> None, session |-> sessionPath] >>
    /\ storeAtStart = None
    /\ tokenRead = None
    /\ tasks = <<>>
    /\ shutdownSent = FALSE
    /\ senderAlive = TRUE

PortsNext ==
    \/ PersistToken
    \/ RegisterDesktop
    \/ ReturnDesktops
    \/ \E i \in 1..MaxStreams : TaskSpawnChild(i)
    \/ \E i \in 1..MaxStreams : TaskRecv(i)
    \/ ShutdownBroadcast

SpecPorts == PortsInit /\ [][PortsNext]_vars

\* C31: the Desktops of one list returned by begin_capture() carry pairwise
\* distinct ports
C31_PortsDistinct ==
    result.tag = "ok" =>
      \A j, k \in 1..Len(result.desktops) :
        j # k => result.desktops[j].port # result.desktops[k].port

\* The start-cast correlation is Ok and its reply carries no restore token
StartedWithoutToken ==
    /\ Joined
    /\ step = "start"
    /\ JoinResult.st = "ok"
    /\ ~IsSome(JoinResult.val.restore_token)

\* C32: when the start-cast correlation succeeds and its reply carries no
\* restore token, begin_capture() does not panic, and the step leaves the
\* durable token store as it was
C32_NoPanicWithoutToken ==
    [][StartedWithoutToken => (pc' # "panicked" /\ result'.tag # "panic" /\ store' = store)]_vars

\* The runtime polls listen() whenever it can go on: the shutdown test has no
\* await point, and rx.recv() resolves once an event is queued or every Sender
\* is gone; nothing is assumed of the senders or of the shutdown broadcast
FairInput ==
    /\ SpecInput
    /\ WF_vars(InputCheckShutdown)
    /\ WF_vars(InputRecv)

\* C33: once the shutdown signal is in listen's shutdown Receiver, listen()
\* eventually returns, whether or not another event is sent and while the
\* Senders of the event channel stay open
C33_ShutdownEndsListen == (ids > 0) ~> (ipc = "stopped")

\* C34: a packet is decoded only as the variant named by its own tag: parsing a
\* frame as a variant other than the one its tag names yields no value
C34_DecodedAsTaggedVariant ==
    (wpc = "parsed" /\ wframe.packet_type # TagOf(wpkt.kind)) => ~wdec.ok

====
